---- MODULE Spec2Model ----
(***************************************************************************)
(* A model of client.go of cloud-ngfw-aws-go: the Client type, its         *)
(* configuration resolver (initCon), the token manager (RefreshJwts), the  *)
(* request dispatcher (Communicate), the log gate (Log) and Initialize.    *)
(*                                                                         *)
(* Strings of the program are TLA+ strings; the strings the program parses *)
(* character by character (the timeout and logging environment variables)  *)
(* are sequences of characters / atoms so that the parse is computed.      *)
(***************************************************************************)
EXTENDS Integers, Sequences, FiniteSets, TLC

VARIABLES c, env, fs, call, ret, events, pre

vars == <<c, env, fs, call, ret, events, pre>>

(***************************************************************************)
(* Bounds of the model.                                                    *)
(***************************************************************************)
\* Communicate is called with 0..MaxCreds credential sets.
MaxCreds == 2
\* The CLOUD_NGFW_TIMEOUT value has at most MaxDigits characters.
MaxDigits == 2
\* The CLOUD_NGFW_LOGGING value has at most MaxLogAtoms atoms (names, commas).
MaxLogAtoms == 3
\* The "logging" list of the credentials file has at most MaxFileLog entries.
MaxFileLog == 2

(***************************************************************************)
(* uint32 bit arithmetic of the logging bitmask.                           *)
(***************************************************************************)
RECURSIVE BitAnd(_, _)
BitAnd(a, b) ==
    IF a = 0 \/ b = 0 THEN 0
    ELSE (a % 2) * (b % 2) + 2 * BitAnd(a \div 2, b \div 2)

RECURSIVE BitOr(_, _)
BitOr(a, b) ==
    IF a = 0 THEN b
    ELSE IF b = 0 THEN a
    ELSE (IF (a % 2) + (b % 2) > 0 THEN 1 ELSE 0) + 2 * BitOr(a \div 2, b \div 2)

\* The logging flags (constants.go of the package; independent bits).
LogQuiet == 2
LogLogin == 4
LogGet == 8
LogPost == 16
LogPut == 32
LogDelete == 64
LogPath == 128
LogSend == 256
LogReceive == 512

\* c.Logging&flag == flag
HasFlag(logging, flag) == BitAnd(logging, flag) = flag

\* The auth scopes of package permissions.
PermFirewall == "firewall"
PermRulestack == "rulestack"

\* A nil error / a nil byte slice / a nil pointer.
Nil == "nil"

(***************************************************************************)
(* Conversions of the standard library that initCon relies on.             *)
(***************************************************************************)
Digits == {"0", "1", "2", "3", "4", "5", "6", "7", "8", "9"}

DigitVal(ch) ==
    CASE ch = "0" -> 0 [] ch = "1" -> 1 [] ch = "2" -> 2 [] ch = "3" -> 3
      [] ch = "4" -> 4 [] ch = "5" -> 5 [] ch = "6" -> 6 [] ch = "7" -> 7
      [] ch = "8" -> 8 [] ch = "9" -> 9

RECURSIVE DecVal(_)
DecVal(s) ==
    IF s = <<>> THEN 0
    ELSE 10 * DecVal(SubSeq(s, 1, Len(s) - 1)) + DigitVal(s[Len(s)])

\* strconv.Atoi on a sequence of characters: an optional sign, then one or
\* more decimal digits; anything else is an error.
Atoi(s) ==
    LET signed == Len(s) > 0 /\ s[1] \in {"-", "+"}
        ds     == IF signed THEN Tail(s) ELSE s
    IN  IF ds = <<>> \/ \E i \in 1..Len(ds) : ds[i] \notin Digits
        THEN [ok |-> FALSE, val |-> 0]
        ELSE [ok |-> TRUE,
              val |-> IF signed /\ s[1] = "-" THEN 0 - DecVal(ds) ELSE DecVal(ds)]

\* strconv.ParseBool.
ParseBool(s) ==
    IF s \in {"1", "t", "T", "TRUE", "true", "True"} THEN [ok |-> TRUE, val |-> TRUE]
    ELSE IF s \in {"0", "f", "F", "FALSE", "false", "False"} THEN [ok |-> TRUE, val |-> FALSE]
    ELSE [ok |-> FALSE, val |-> FALSE]

\* The empty header map.
NoHeaders == [k \in {} |-> ""]

\* json.Unmarshal of the CLOUD_NGFW_HEADERS value into the (empty) header map.
UnmarshalHeaders(s) ==
    CASE s = "{}"                   -> [ok |-> TRUE, val |-> NoHeaders]
      [] s = "null"                 -> [ok |-> TRUE, val |-> NoHeaders]
      [] s = "{\"X-Env\":\"e\"}"    -> [ok |-> TRUE, val |-> [k \in {"X-Env"} |-> "e"]]
      [] s = "{\"Authorization\":\"envtok\"}"
                                    -> [ok |-> TRUE, val |-> [k \in {"Authorization"} |-> "envtok"]]
      [] OTHER                      -> [ok |-> FALSE, val |-> NoHeaders]

\* strings.Split(val, ",") on a sequence of atoms: the atoms between commas are
\* concatenated into one token each; n commas give n+1 tokens.
RECURSIVE Split(_)
Split(s) ==
    IF s = <<>> THEN << "" >>
    ELSE LET rest == Split(Tail(s))
         IN  IF Head(s) = "," THEN << "" >> \o rest
             ELSE << Head(s) \o Head(rest) >> \o Tail(rest)

\* The switch of initCon over one logging token; 0 stands for the default arm.
LogFlagOf(x) ==
    CASE x = "quiet"   -> LogQuiet
      [] x = "login"   -> LogLogin
      [] x = "get"     -> LogGet
      [] x = "post"    -> LogPost
      [] x = "put"     -> LogPut
      [] x = "delete"  -> LogDelete
      [] x = "path"    -> LogPath
      [] x = "send"    -> LogSend
      [] x = "receive" -> LogReceive
      [] OTHER         -> 0

\* LogLoop that steps over an unknown token.
RECURSIVE LogLoop_SkipsUnknown(_, _)
LogLoop_SkipsUnknown(ll, lv) ==
    IF ll = <<>> THEN [ok |-> TRUE, lv |-> lv, bad |-> ""]
    ELSE LogLoop_SkipsUnknown(Tail(ll), BitOr(lv, LogFlagOf(Head(ll))))

\* The loop of initCon over the logging list ll, starting from lv: the first
\* unknown token stops it with an error.
RECURSIVE LogLoop(_, _)
LogLoop(ll, lv) ==
    IF ll = <<>> THEN [ok |-> TRUE, lv |-> lv, bad |-> ""]
    ELSE IF LogFlagOf(Head(ll)) = 0 THEN [ok |-> FALSE, lv |-> lv, bad |-> Head(ll)]
    ELSE LogLoop(Tail(ll), BitOr(lv, LogFlagOf(Head(ll))))

(***************************************************************************)
(* The Client struct and the credentials file.                             *)
(***************************************************************************)
\* A nil *http.Transport, and the transport initCon builds.
NilTransport == [set |-> FALSE, custom |-> FALSE, InsecureSkipVerify |-> FALSE]
BuiltTransport(skip) == [set |-> TRUE, custom |-> FALSE, InsecureSkipVerify |-> skip]
\* A transport the caller supplied before Initialize.
CustomTransport == [set |-> TRUE, custom |-> TRUE, InsecureSkipVerify |-> FALSE]

\* A nil *http.Client, and the client initCon builds.
NilCon == [set |-> FALSE, Transport |-> NilTransport, Timeout |-> 0]
BuiltCon(tr, tout) == [set |-> TRUE, Transport |-> tr, Timeout |-> tout]

\* json_client := &Client{}: the fields of the file that initCon reads.
EmptyJson ==
    [Host |-> "", Region |-> "", Protocol |-> "", Timeout |-> 0,
     Headers |-> NoHeaders, SkipVerifyCertificate |-> FALSE,
     LoggingFromInitialize |-> <<>>]

\* A file (or the authFileContent bytes of a test) that was never written.
NoFile == [status |-> "unreadable", json |-> EmptyJson]
\* Bytes that are not JSON: what a nil authFileContent is to json.Unmarshal.
BadBytes == [status |-> "malformed", json |-> EmptyJson]

\* The zero value of Client.
ZeroClient ==
    [Host |-> "", AccessKey |-> "", SecretKey |-> "", Region |-> "",
     Protocol |-> "", Timeout |-> 0, Headers |-> NoHeaders,
     LfaArn |-> "", LraArn |-> "", Arn |-> "",
     CheckEnvironment |-> FALSE,
     SkipVerifyCertificate |-> FALSE, Transport |-> NilTransport,
     Logging |-> 0,
     FirewallJwt |-> "", RulestackJwt |-> "",
     credsFile |-> "", apiPrefix |-> "", con |-> NilCon,
     testData |-> 0, authFileContent |-> BadBytes]

\* The environment with no CLOUD_NGFW_* variable set.
EmptyEnv ==
    [HOST |-> "", REGION |-> "", PROTOCOL |-> "", TIMEOUT |-> <<>>,
     HEADERS |-> "", VERIFY_CERTIFICATE |-> "", LOGGING |-> <<>>]

(***************************************************************************)
(* initCon, one stage per block of the function.  A stage takes and gives  *)
(* [c, j, err]: the client so far, json_client, and the error returned (a  *)
(* stage after an error is skipped: the function has returned).            *)
(***************************************************************************)
\* Load up the JSON config file.
LoadFile(cl, file) ==
    IF cl.credsFile = "" THEN [c |-> cl, j |-> EmptyJson, err |-> Nil]
    ELSE LET b == IF cl.testData = 0 THEN file ELSE cl.authFileContent
         IN  IF cl.testData = 0 /\ file.status = "unreadable"
             THEN [c |-> cl, j |-> EmptyJson, err |-> "ReadFile failed"]
             ELSE IF b.status # "ok"
             THEN [c |-> cl, j |-> EmptyJson, err |-> "credentials file is not JSON"]
             ELSE [c |-> cl, j |-> b.json, err |-> Nil]

\* HostStage that reads the environment whatever CheckEnvironment says.
HostStage_Ungated(s, e) ==
    IF s.err # Nil \/ s.c.Host # "" THEN s
    ELSE IF e.HOST # ""
         THEN [s EXCEPT !.c.Host = e.HOST]
         ELSE [s EXCEPT !.c.Host = s.j.Host]

HostStage(s, e) ==
    IF s.err # Nil \/ s.c.Host # "" THEN s
    ELSE IF s.c.CheckEnvironment /\ e.HOST # ""
         THEN [s EXCEPT !.c.Host = e.HOST]
         ELSE [s EXCEPT !.c.Host = s.j.Host]

RegionStage(s, e) ==
    IF s.err # Nil \/ s.c.Region # "" THEN s
    ELSE IF s.c.CheckEnvironment /\ e.REGION # ""
         THEN [s EXCEPT !.c.Region = e.REGION]
         ELSE [s EXCEPT !.c.Region = s.j.Region]

\* ProtocolStage that asks the file before the environment.
ProtocolStage_FileFirst(s, e) ==
    IF s.err # Nil THEN s
    ELSE LET p == IF s.c.Protocol # "" THEN s.c.Protocol
                  ELSE IF s.j.Protocol # "" THEN s.j.Protocol
                  ELSE IF s.c.CheckEnvironment /\ e.PROTOCOL # "" THEN e.PROTOCOL
                  ELSE "https"
         IN  [s EXCEPT !.c.Protocol = p,
                       !.err = IF p # "http" /\ p # "https"
                               THEN "Invalid protocol" ELSE Nil]

ProtocolStage(s, e) ==
    IF s.err # Nil THEN s
    ELSE LET p == IF s.c.Protocol # "" THEN s.c.Protocol
                  ELSE IF s.c.CheckEnvironment /\ e.PROTOCOL # "" THEN e.PROTOCOL
                  ELSE IF s.j.Protocol # "" THEN s.j.Protocol
                  ELSE "https"
         IN  [s EXCEPT !.c.Protocol = p,
                       !.err = IF p # "http" /\ p # "https"
                               THEN "Invalid protocol" ELSE Nil]

\* TimeoutStage that lets a timeout of zero through.
TimeoutStage_AllowsZero(s, e) ==
    IF s.err # Nil THEN s
    ELSE IF s.c.Timeout = 0 /\ s.c.CheckEnvironment /\ e.TIMEOUT # <<>>
              /\ ~Atoi(e.TIMEOUT).ok
    THEN [s EXCEPT !.err = "Failed to parse timeout env var as int"]
    ELSE LET t == IF s.c.Timeout # 0 THEN s.c.Timeout
                  ELSE IF s.c.CheckEnvironment /\ e.TIMEOUT # <<>>
                       THEN Atoi(e.TIMEOUT).val
                  ELSE IF s.j.Timeout # 0 THEN s.j.Timeout
                  ELSE 20
         IN  [s EXCEPT !.c.Timeout = t,
                       !.err = IF t < 0 THEN "Timeout must be a positive int" ELSE Nil]

TimeoutStage(s, e) ==
    IF s.err # Nil THEN s
    ELSE IF s.c.Timeout = 0 /\ s.c.CheckEnvironment /\ e.TIMEOUT # <<>>
              /\ ~Atoi(e.TIMEOUT).ok
    THEN [s EXCEPT !.err = "Failed to parse timeout env var as int"]
    ELSE LET t == IF s.c.Timeout # 0 THEN s.c.Timeout
                  ELSE IF s.c.CheckEnvironment /\ e.TIMEOUT # <<>>
                       THEN Atoi(e.TIMEOUT).val
                  ELSE IF s.j.Timeout # 0 THEN s.j.Timeout
                  ELSE 20
         IN  [s EXCEPT !.c.Timeout = t,
                       !.err = IF t <= 0 THEN "Timeout must be a positive int" ELSE Nil]

HeadersStage(s, e) ==
    IF s.err # Nil \/ DOMAIN s.c.Headers # {} THEN s
    ELSE LET useEnv == s.c.CheckEnvironment /\ e.HEADERS # ""
             parsed == UnmarshalHeaders(e.HEADERS)
             h1     == IF useEnv THEN parsed.val ELSE s.c.Headers
         IN  IF useEnv /\ ~parsed.ok
             THEN [s EXCEPT !.err = "headers env var is not a JSON object"]
             ELSE IF DOMAIN h1 = {} /\ DOMAIN s.j.Headers # {}
             THEN [s EXCEPT !.c.Headers = s.j.Headers]
             ELSE [s EXCEPT !.c.Headers = h1]

\* VerifyStage in which the file's flag has the last word.
VerifyStage_FileResets(s, e) ==
    IF s.err # Nil \/ s.c.SkipVerifyCertificate THEN s
    ELSE LET useEnv == s.c.CheckEnvironment /\ e.VERIFY_CERTIFICATE # ""
             vcb    == ParseBool(e.VERIFY_CERTIFICATE)
         IN  IF useEnv /\ ~vcb.ok
             THEN [s EXCEPT !.err = "verify env var is not a bool"]
             ELSE [s EXCEPT !.c.SkipVerifyCertificate = s.j.SkipVerifyCertificate]

VerifyStage(s, e) ==
    IF s.err # Nil \/ s.c.SkipVerifyCertificate THEN s
    ELSE LET useEnv == s.c.CheckEnvironment /\ e.VERIFY_CERTIFICATE # ""
             vcb    == ParseBool(e.VERIFY_CERTIFICATE)
             v1     == useEnv /\ vcb.val
         IN  IF useEnv /\ ~vcb.ok
             THEN [s EXCEPT !.err = "verify env var is not a bool"]
             ELSE IF ~v1 /\ s.j.SkipVerifyCertificate
             THEN [s EXCEPT !.c.SkipVerifyCertificate = s.j.SkipVerifyCertificate]
             ELSE [s EXCEPT !.c.SkipVerifyCertificate = v1]

\* The list ll that the logging block works on.
LoggingList(cl, j, e) ==
    IF cl.CheckEnvironment /\ e.LOGGING # <<>> THEN Split(e.LOGGING)
    ELSE j.LoggingFromInitialize

LoggingStage(s, e) ==
    IF s.err # Nil \/ s.c.Logging # 0 THEN s
    ELSE LET ll == LoggingList(s.c, s.j, e)
             r  == LogLoop(ll, 0)
         IN  IF Len(ll) > 0
             THEN IF r.ok THEN [s EXCEPT !.c.Logging = r.lv]
                  ELSE [s EXCEPT !.err = "Unknown logging requested"]
             ELSE [s EXCEPT !.c.Logging =
                       BitOr(BitOr(LogLogin, LogPost), BitOr(LogPut, LogDelete))]

\* Setup the https client.
TransportStage(s) ==
    IF s.err # Nil THEN s
    ELSE LET tr == IF ~s.c.Transport.set
                   THEN BuiltTransport(s.c.SkipVerifyCertificate)
                   ELSE s.c.Transport
         IN  [s EXCEPT !.c.Transport = tr, !.c.con = BuiltCon(tr, s.c.Timeout)]

\* PrefixStage without the sanity checks.
PrefixStage_NoSanity(s) ==
    IF s.err # Nil THEN s
    ELSE [s EXCEPT !.c.apiPrefix = s.c.Protocol \o "://" \o s.c.Host]

\* Sanity checks, then the uri prefix.
PrefixStage(s) ==
    IF s.err # Nil THEN s
    ELSE IF s.c.Region = "" THEN [s EXCEPT !.err = "No region specified"]
    ELSE IF s.c.Host = "" THEN [s EXCEPT !.err = "No host specified"]
    ELSE [s EXCEPT !.c.apiPrefix = s.c.Protocol \o "://" \o s.c.Host]

\* c.initCon(): [c |-> the client afterwards, err |-> the error returned].
initCon(cl, e, file) ==
    LET s == PrefixStage(TransportStage(LoggingStage(VerifyStage(HeadersStage(
                 TimeoutStage(ProtocolStage(RegionStage(HostStage(
                     LoadFile(cl, file), e), e), e), e), e), e), e)))
    IN  [c |-> s.c, err |-> s.err]

(***************************************************************************)
(* Communicate.  What happens during a call is recorded as a sequence of   *)
(* events [ev, a, b, h]; the externals (map iteration order, the signer,   *)
(* the network) are the oracle o of the call.                              *)
(***************************************************************************)
Event(ev, a, b, h) == [ev |-> ev, a |-> a, b |-> b, h |-> h]

\* textproto.CanonicalMIMEHeaderKey, which http.Header.Set applies to its key.
CanonicalKey(k) ==
    CASE k = "authorization" -> "Authorization"
      [] k = "AUTHORIZATION" -> "Authorization"
      [] k = "content-type"  -> "Content-Type"
      [] k = "x-custom"      -> "X-Custom"
      [] OTHER               -> k

\* req.Header.Set(k, v)
SetHeader(h, k, v) ==
    [x \in DOMAIN h \cup {CanonicalKey(k)} |-> IF x = CanonicalKey(k) THEN v ELSE h[x]]

\* for k, v := range c.Headers { req.Header.Set(k, v) }, in the order the map
\* iteration happens to take.
RECURSIVE ApplyCustom(_, _, _)
ApplyCustom(h, custom, order) ==
    IF order = <<>> THEN h
    ELSE ApplyCustom(SetHeader(h, Head(order), custom[Head(order)]), custom, Tail(order))

RECURSIVE CustomEvents(_, _)
CustomEvents(custom, order) ==
    IF order = <<>> THEN <<>>
    ELSE <<Event("set", CanonicalKey(Head(order)), custom[Head(order)], NoHeaders)>>
         \o CustomEvents(custom, Tail(order))

\* The orders in which a range over a map with key set S can run.
Orders(S) ==
    {q \in [1..Cardinality(S) -> S] : \A i, j \in 1..Cardinality(S) : q[i] = q[j] => i = j}

\* strings.Join(path, "/")
RECURSIVE Join(_)
Join(path) ==
    IF path = <<>> THEN ""
    ELSE IF Len(path) = 1 THEN path[1]
    ELSE path[1] \o "/" \o Join(Tail(path))

\* json.Marshal(input): a channel cannot be marshalled.
Marshal(input) ==
    CASE input = "getJwt"  -> [ok |-> TRUE, val |-> "{\"ExpiryTime\":90}"]
      [] input = "payload" -> [ok |-> TRUE, val |-> "{\"Name\":\"x\"}"]
      [] OTHER             -> [ok |-> FALSE, val |-> ""]

\* http.NewRequest rejects a method that is not a token ("" means GET).
ValidMethod(m) == m \in {"", "GET", "POST", "PUT", "DELETE", "HEAD", "PATCH"}

\* json.Unmarshal(body, output) for a response struct with a token and an error code.
Unmarshal(body) ==
    CASE body = "{\"TokenId\":\"t1\",\"ErrorCode\":0}" -> [ok |-> TRUE, jwt |-> "t1", code |-> 0]
      [] body = "{\"TokenId\":\"t2\",\"ErrorCode\":0}" -> [ok |-> TRUE, jwt |-> "t2", code |-> 0]
      [] body = "{\"ErrorCode\":7}"                    -> [ok |-> TRUE, jwt |-> "", code |-> 7]
      [] OTHER                                         -> [ok |-> FALSE, jwt |-> "", code |-> 0]

\* output.Ok() of api.Oker: the response carries no error code.
Ok(ans) == ans.code = 0

\* v4.Signer.Sign: the signature goes into the Authorization header, beside the
\* date and the session token.
Sign(h, cred) ==
    SetHeader(SetHeader(SetHeader(h, "X-Amz-Date", "now"),
                        "X-Amz-Security-Token", cred),
              "Authorization", "AWS4-HMAC-SHA256 Credential=" \o cred)

\* What a Communicate call gives back, with the decoded output and its events.
CommResult(body, err, ans, evs) == [body |-> body, err |-> err, ans |-> ans, events |-> evs]

NoAns == [ok |-> FALSE, jwt |-> "", code |-> 0]

\* The log lines of Communicate.
SendLog(cl, data) ==
    IF HasFlag(cl.Logging, LogSend) THEN <<Event("log", "sending", data, NoHeaders)>> ELSE <<>>

ReceiveLog(cl, body) ==
    IF HasFlag(cl.Logging, LogReceive) THEN <<Event("log", "received", body, NoHeaders)>> ELSE <<>>

\* Decode that takes a response that parses for a success, whatever Ok() says.
Decode_IgnoresOk(cl, body, output, evs) ==
    LET ev2 == evs \o ReceiveLog(cl, body)
        ans == Unmarshal(body)
    IN  IF output = Nil THEN CommResult(body, Nil, NoAns, ev2)
        ELSE IF ~ans.ok THEN CommResult(body, "json: cannot unmarshal", NoAns, ev2)
        ELSE CommResult(body, Nil, ans, ev2)

\* The tail of Communicate, once body is set.
Decode(cl, body, output, evs) ==
    LET ev2 == evs \o ReceiveLog(cl, body)
        ans == Unmarshal(body)
    IN  IF output = Nil THEN CommResult(body, Nil, NoAns, ev2)
        ELSE IF ~ans.ok THEN CommResult(body, "json: cannot unmarshal", NoAns, ev2)
        ELSE IF ~Ok(ans) THEN CommResult(body, "output", ans, ev2)
        ELSE CommResult(body, Nil, ans, ev2)

\* ScopeHeaders with the two tokens taken for each other.
ScopeHeaders_Swapped(cl, auth) ==
    LET h0 == SetHeader(NoHeaders, "Content-Type", "application/json")
    IN  IF auth = PermFirewall THEN SetHeader(h0, "Authorization", cl.RulestackJwt)
        ELSE IF auth = PermRulestack THEN SetHeader(h0, "Authorization", cl.FirewallJwt)
        ELSE h0

\* The headers of the request before the custom headers: Content-Type and the
\* scope's token.
ScopeHeaders(cl, auth) ==
    LET h0 == SetHeader(NoHeaders, "Content-Type", "application/json")
    IN  IF auth = PermFirewall THEN SetHeader(h0, "Authorization", cl.FirewallJwt)
        ELSE IF auth = PermRulestack THEN SetHeader(h0, "Authorization", cl.RulestackJwt)
        ELSE h0

ScopeEvents(cl, auth) ==
    <<Event("set", "Content-Type", "application/json", NoHeaders)>>
    \o (IF auth = PermFirewall
        THEN <<Event("set", "Authorization", cl.FirewallJwt, NoHeaders)>>
        ELSE IF auth = PermRulestack
        THEN <<Event("set", "Authorization", cl.RulestackJwt, NoHeaders)>>
        ELSE <<>>)

KnownScope(auth) == auth \in {"", PermFirewall, PermRulestack}

\* The nil pointer dereference of c.con.Do on a nil c.con: the call panics, it
\* returns nothing.
NilConPanic == "panic: nil http.Client"

\* Do that turns a 5xx status into an error of its own.
Do_ChecksStatus(cl, method, url, h, output, net, evs) ==
    LET ev4 == evs \o <<Event("send", method, url, h)>>
    IN  IF ~cl.con.set
        THEN CommResult(Nil, NilConPanic, NoAns, evs)
        ELSE IF net.kind = "transportErr"
        THEN CommResult(Nil, "transport error", NoAns, ev4)
        ELSE IF net.kind = "readErr"
        THEN CommResult(Nil, "read error", NoAns,
                        ev4 \o <<Event("recvErr", net.status, "", NoHeaders)>>)
        ELSE IF net.status = "500"
        THEN CommResult(net.body, "HTTP 500", NoAns,
                        ev4 \o <<Event("recv", net.status, net.body, NoHeaders)>>)
        ELSE Decode(cl, net.body, output,
                    ev4 \o <<Event("recv", net.status, net.body, NoHeaders)>>)

\* resp, err := c.con.Do(req) and the reading of the body, then the decoding.
\* A nil c.con (no initCon has run) makes Do panic.
Do(cl, method, url, h, output, net, evs) ==
    LET ev4 == evs \o <<Event("send", method, url, h)>>
    IN  IF ~cl.con.set
        THEN CommResult(Nil, NilConPanic, NoAns, evs)
        ELSE IF net.kind = "transportErr"
        THEN CommResult(Nil, "transport error", NoAns, ev4)
        ELSE IF net.kind = "readErr"
        THEN CommResult(Nil, "read error", NoAns,
                        ev4 \o <<Event("recvErr", net.status, "", NoHeaders)>>)
        ELSE Decode(cl, net.body, output,
                    ev4 \o <<Event("recv", net.status, net.body, NoHeaders)>>)

\* Online that signs before the custom headers are applied.
Online_SignFirst(cl, auth, method, path, data, output, creds, o, ev0) ==
    LET url  == cl.apiPrefix \o "/" \o Join(path)
        h1   == ScopeHeaders(cl, auth)
        h2   == IF Len(creds) = 1 THEN Sign(h1, creds[1]) ELSE h1
        ev2  == IF Len(creds) = 1
                THEN ev0 \o ScopeEvents(cl, auth) \o <<Event("sign", creds[1], cl.Region, h1)>>
                ELSE ev0 \o ScopeEvents(cl, auth)
        h3   == ApplyCustom(h2, cl.Headers, o.order)
        ev3  == ev2 \o CustomEvents(cl.Headers, o.order)
    IN  IF ~ValidMethod(method)
        THEN CommResult(Nil, "net/http: invalid method", NoAns, ev0)
        ELSE IF ~KnownScope(auth)
        THEN CommResult(Nil, "Unknown auth type", NoAns,
                        ev0 \o <<Event("set", "Content-Type", "application/json", NoHeaders)>>)
        ELSE IF Len(creds) = 1 /\ o.net.kind = "signErr"
        THEN CommResult(Nil, "sign failed", NoAns, ev2)
        ELSE Do(cl, method, url, h3, output, o.net, ev3)

\* The request branch of Communicate (no test data): build, set the headers,
\* sign when one credential set was given, send.
Online(cl, auth, method, path, data, output, creds, o, ev0) ==
    LET url  == cl.apiPrefix \o "/" \o Join(path)
        h2   == ApplyCustom(ScopeHeaders(cl, auth), cl.Headers, o.order)
        ev2  == ev0 \o ScopeEvents(cl, auth) \o CustomEvents(cl.Headers, o.order)
        h3   == IF Len(creds) = 1 THEN Sign(h2, creds[1]) ELSE h2
        ev3  == IF Len(creds) = 1
                THEN ev2 \o <<Event("sign", creds[1], cl.Region, h2)>> ELSE ev2
    IN  IF ~ValidMethod(method)
        THEN CommResult(Nil, "net/http: invalid method", NoAns, ev0)
        ELSE IF ~KnownScope(auth)
        THEN CommResult(Nil, "Unknown auth type", NoAns,
                        ev0 \o <<Event("set", "Content-Type", "application/json", NoHeaders)>>)
        ELSE IF Len(creds) = 1 /\ o.net.kind = "signErr"
        THEN CommResult(Nil, "sign failed", NoAns, ev3)
        ELSE Do(cl, method, url, h3, output, o.net, ev3)

\* The body that stands for the response when test data is preloaded.
StubBody == "{\"test\"}"

\* Communicate that goes to the network whether or not test data is preloaded.
Communicate_NoStub(cl, auth, method, path, input, output, creds, o) ==
    LET data == IF input = Nil THEN "" ELSE Marshal(input).val
        ev0  == SendLog(cl, data)
    IN  IF Len(creds) > 1
        THEN CommResult(Nil, "Only one credentials is allowed", NoAns, <<>>)
        ELSE IF input # Nil /\ ~Marshal(input).ok
        THEN CommResult(Nil, "json: unsupported type", NoAns, <<>>)
        ELSE Online(cl, auth, method, path, data, output, creds, o, ev0)

\* Communicate whose sanity check lets two credential sets through.
Communicate_OffByOne(cl, auth, method, path, input, output, creds, o) ==
    LET data == IF input = Nil THEN "" ELSE Marshal(input).val
        ev0  == SendLog(cl, data)
    IN  IF Len(creds) > 2
        THEN CommResult(Nil, "Only one credentials is allowed", NoAns, <<>>)
        ELSE IF input # Nil /\ ~Marshal(input).ok
        THEN CommResult(Nil, "json: unsupported type", NoAns, <<>>)
        ELSE IF cl.testData > 0
        THEN Decode(cl, StubBody, output,
                    ev0 \o <<Event("stub", "", StubBody, NoHeaders)>>)
        ELSE Online(cl, auth, method, path, data, output, creds, o, ev0)

\* c.Communicate(auth, method, path, input, output, creds...)
Communicate(cl, auth, method, path, input, output, creds, o) ==
    LET data == IF input = Nil THEN "" ELSE Marshal(input).val
        ev0  == SendLog(cl, data)
    IN  IF Len(creds) > 1
        THEN CommResult(Nil, "Only one credentials is allowed", NoAns, <<>>)
        ELSE IF input # Nil /\ ~Marshal(input).ok
        THEN CommResult(Nil, "json: unsupported type", NoAns, <<>>)
        ELSE IF cl.testData > 0
        THEN Decode(cl, StubBody, output,
                    ev0 \o <<Event("stub", "", StubBody, NoHeaders)>>)
        ELSE Online(cl, auth, method, path, data, output, creds, o, ev0)

(***************************************************************************)
(* RefreshJwts, Initialize and Log.                                        *)
(***************************************************************************)
LoginLog(cl, msg) ==
    IF HasFlag(cl.Logging, LogLogin) THEN <<Event("log", "login", msg, NoHeaders)>> ELSE <<>>

\* The firewall token asked for at the rulestack endpoint.
FirewallTokenPath_Swapped == <<"v1", "mgmt", "tokens", "cloudrulestackadmin">>

\* The path of each role's token endpoint.
FirewallTokenPath == <<"v1", "mgmt", "tokens", "cloudfirewalladmin">>
RulestackTokenPath == <<"v1", "mgmt", "tokens", "cloudrulestackadmin">>

\* AssumeRole that hands out the same credentials for every role.
AssumedCreds_Cached(arn) == "sts:cached"

\* result.Credentials of a successful svc.AssumeRole for the role arn.
AssumedCreds(arn) == "sts:" \o arn

\* TokenStep that also keeps the token among the custom headers.
TokenStep_CachesHeader(s, arn, path, field, what, assumeOk, o) ==
    IF s.returned \/ arn = "" THEN s
    ELSE LET ev1 == s.events \o LoginLog(s.c, what)
                    \o <<Event("assume", arn, "sdk_session", NoHeaders)>>
                    \o (IF assumeOk
                        THEN <<Event("creds", arn, AssumedCreds(arn), NoHeaders)>>
                        ELSE <<>>)
             r   == Communicate(s.c, "", "GET", path, "getJwt", "ans",
                                <<AssumedCreds(arn)>>, o)
         IN  IF ~assumeOk
             THEN [s EXCEPT !.err = "AssumeRole failed", !.returned = TRUE, !.events = ev1]
             ELSE IF r.err # Nil
             THEN [s EXCEPT !.err = r.err, !.returned = TRUE, !.events = ev1 \o r.events]
             ELSE [s EXCEPT !.c[field] = r.ans.jwt,
                            !.c.Headers = SetHeader(s.c.Headers, "Authorization", r.ans.jwt),
                            !.events = ev1 \o r.events
                                \o <<Event("write", field, r.ans.jwt, NoHeaders)>>]

\* TokenStep that records a failure but does not return from RefreshJwts.
TokenStep_NoAbort(s, arn, path, field, what, assumeOk, o) ==
    IF s.returned \/ arn = "" THEN s
    ELSE LET ev1 == s.events \o LoginLog(s.c, what)
                    \o <<Event("assume", arn, "sdk_session", NoHeaders)>>
                    \o (IF assumeOk
                        THEN <<Event("creds", arn, AssumedCreds(arn), NoHeaders)>>
                        ELSE <<>>)
             r   == Communicate(s.c, "", "GET", path, "getJwt", "ans",
                                <<AssumedCreds(arn)>>, o)
         IN  IF ~assumeOk
             THEN [s EXCEPT !.err = "AssumeRole failed", !.events = ev1]
             ELSE IF r.err # Nil
             THEN [s EXCEPT !.err = r.err, !.events = ev1 \o r.events]
             ELSE [s EXCEPT !.c[field] = r.ans.jwt,
                            !.events = ev1 \o r.events
                                \o <<Event("write", field, r.ans.jwt, NoHeaders)>>]

\* One "if c.XArn != ''" block of RefreshJwts on s = [c, err, events, returned]:
\* assume the role, fetch the token with the role's credentials, store it.
TokenStep(s, arn, path, field, what, assumeOk, o) ==
    IF s.returned \/ arn = "" THEN s
    ELSE LET ev1 == s.events \o LoginLog(s.c, what)
                    \o <<Event("assume", arn, "sdk_session", NoHeaders)>>
                    \o (IF assumeOk
                        THEN <<Event("creds", arn, AssumedCreds(arn), NoHeaders)>>
                        ELSE <<>>)
             r   == Communicate(s.c, "", "GET", path, "getJwt", "ans",
                                <<AssumedCreds(arn)>>, o)
         IN  IF ~assumeOk
             THEN [s EXCEPT !.err = "AssumeRole failed", !.returned = TRUE, !.events = ev1]
             ELSE IF r.err # Nil
             THEN [s EXCEPT !.err = r.err, !.returned = TRUE, !.events = ev1 \o r.events]
             ELSE [s EXCEPT !.c[field] = r.ans.jwt,
                            !.events = ev1 \o r.events
                                \o <<Event("write", field, r.ans.jwt, NoHeaders)>>]

\* The error of the shared-ARN branch.
SharedArnError == "No endpoint yet known for shared ARN JWT retrieval"

\* The log line and session.NewSessionWithOptions at the head of RefreshJwts.
SessionEvents(cl, sessOk) ==
    LoginLog(cl, "refreshing JWTs...")
    \o <<Event("session", IF sessOk THEN "ok" ELSE "error", cl.Region, NoHeaders)>>

\* RefreshJwts that looks at the shared ARN only after the two role blocks.
RefreshJwts_ArnLast(cl, o) ==
    LET ev0 == SessionEvents(cl, o.sessOk)
        s0  == [c |-> cl, err |-> Nil, events |-> ev0, returned |-> FALSE]
        s1  == TokenStep(s0, cl.LfaArn, FirewallTokenPath, "FirewallJwt",
                         "refreshing firewall JWT...", o.lfaOk, o.lfa)
        s2  == TokenStep(s1, cl.LraArn, RulestackTokenPath, "RulestackJwt",
                         "refreshing rulestack JWT...", o.lraOk, o.lra)
    IN  IF ~o.sessOk
        THEN [c |-> cl, err |-> "session error", events |-> ev0]
        ELSE IF s2.err = Nil /\ cl.Arn # ""
        THEN [c |-> s2.c, err |-> SharedArnError, events |-> s2.events]
        ELSE [c |-> s2.c, err |-> s2.err, events |-> s2.events]

\* c.RefreshJwts(): [c, err, events].
RefreshJwts(cl, o) ==
    LET ev0 == SessionEvents(cl, o.sessOk)
        s0  == [c |-> cl, err |-> Nil, events |-> ev0, returned |-> FALSE]
        s1  == TokenStep(s0, cl.LfaArn, FirewallTokenPath, "FirewallJwt",
                         "refreshing firewall JWT...", o.lfaOk, o.lfa)
        s2  == TokenStep(s1, cl.LraArn, RulestackTokenPath, "RulestackJwt",
                         "refreshing rulestack JWT...", o.lraOk, o.lra)
    IN  IF ~o.sessOk
        THEN [c |-> cl, err |-> "session error", events |-> ev0]
        ELSE IF cl.Arn # ""
        THEN [c |-> cl, err |-> SharedArnError, events |-> ev0]
        ELSE [c |-> s2.c, err |-> s2.err, events |-> s2.events]

\* Initialize that goes on to RefreshJwts whatever initCon returned.
Initialize_IgnoresInitConError(cl, e, file, o) ==
    LET r == initCon(cl, e, file)
        j == RefreshJwts(r.c, o)
    IN  IF cl.testData > 0
        THEN [c |-> [cl EXCEPT !.Host = "test.nz"], err |-> Nil, events |-> <<>>]
        ELSE [c |-> j.c, err |-> j.err,
              events |-> <<Event("initCon", r.err, "", NoHeaders)>> \o j.events]

\* c.Initialize(): [c, err, events].
Initialize(cl, e, file, o) ==
    LET r == initCon(cl, e, file)
        j == RefreshJwts(r.c, o)
    IN  IF cl.testData > 0
        THEN [c |-> [cl EXCEPT !.Host = "test.nz"], err |-> Nil, events |-> <<>>]
        ELSE IF r.err # Nil
        THEN [c |-> r.c, err |-> r.err,
              events |-> <<Event("initCon", r.err, "", NoHeaders)>>]
        ELSE [c |-> j.c, err |-> j.err,
              events |-> <<Event("initCon", Nil, "", NoHeaders)>> \o j.events]

\* MethodFlag that looks up POST's bit for GET and GET's bit for POST.
MethodFlag_GetIsPost(method) ==
    CASE method = "GET"    -> LogPost
      [] method = "POST"   -> LogGet
      [] method = "PUT"    -> LogPut
      [] method = "DELETE" -> LogDelete
      [] OTHER             -> 0

\* The flag that gates Log for a method; 0 for the default arm of the switch.
MethodFlag(method) ==
    CASE method = "GET"    -> LogGet
      [] method = "POST"   -> LogPost
      [] method = "PUT"    -> LogPut
      [] method = "DELETE" -> LogDelete
      [] OTHER             -> 0

\* c.Log(method, msg): the lines it prints.
Log(cl, method, msg) ==
    IF MethodFlag(method) = 0 \/ ~HasFlag(cl.Logging, MethodFlag(method)) THEN <<>>
    ELSE <<Event("log", method, msg, NoHeaders)>>

(***************************************************************************)
(* The inputs of the calls.                                                *)
(***************************************************************************)
Statuses == {"200", "500"}

Bodies ==
    {"{\"TokenId\":\"t1\",\"ErrorCode\":0}", "{\"TokenId\":\"t2\",\"ErrorCode\":0}",
     "{\"ErrorCode\":7}", ""}

\* What the signer and the network do with one request.
NetOutcomes ==
    {[kind |-> "signErr", status |-> "", body |-> ""],
     [kind |-> "transportErr", status |-> "", body |-> ""]}
    \cup {[kind |-> "readErr", status |-> st, body |-> ""] : st \in Statuses}
    \cup {[kind |-> "resp", status |-> st, body |-> b] : st \in Statuses, b \in Bodies}

CommOracles(cl) == [order : Orders(DOMAIN cl.Headers), net : NetOutcomes]

RefreshOracles(cl) ==
    [sessOk : BOOLEAN, lfaOk : BOOLEAN, lfa : CommOracles(cl),
     lraOk : BOOLEAN, lra : CommOracles(cl)]

Scopes == {"", PermFirewall, PermRulestack, "admin"}
Outputs == {Nil, "ans"}
\* 0..MaxCreds credential sets of the caller.
CredLists == {[i \in 1..n |-> "ext"] : n \in 0..MaxCreds}

\* The calls of Communicate that callers make: every scope, output and number
\* of credential sets on a plain GET, and every scope with the methods and
\* payloads that fail before the request is built.
CommCalls ==
    [auth : Scopes, method : {"GET"}, path : {<<"v1", "config", "rulestacks">>},
     input : {Nil}, output : Outputs, creds : CredLists]
    \cup
    [auth : Scopes, method : {"POST", "BAD METHOD"},
     path : {<<"v1", "config", "rulestacks">>}, input : {"payload", "chan"},
     output : {Nil}, creds : {<<>>, <<"ext">>}]

NoCall ==
    [op |-> "new", auth |-> "", method |-> "", path |-> <<>>, input |-> Nil,
     output |-> Nil, creds |-> <<>>]

NoRet == [body |-> Nil, err |-> Nil]

(***************************************************************************)
(* The client's life: a caller builds a Client, then calls Initialize,     *)
(* RefreshJwts, Communicate and Log in any order.                          *)
(***************************************************************************)
\* The environment and the credentials file of the lifecycle specification.
LifeEnv ==
    [EmptyEnv EXCEPT !.HOST = "env.example", !.PROTOCOL = "http",
                     !.TIMEOUT = <<"3", "0">>]

LifeFile ==
    [status |-> "ok",
     json |-> [EmptyJson EXCEPT !.Host = "file.example", !.Region = "eu-west-1",
                                !.Headers = [k \in {"X-Custom"} |-> "f"]]]

HeaderChoices ==
    {NoHeaders,
     [k \in {"X-Custom"} |-> "x"],
     [k \in {"authorization", "Authorization"} |->
         IF k = "Authorization" THEN "custom-upper" ELSE "custom-lower"]}

\* Clients as callers (and the package's tests) build them before Initialize:
\* the role ARNs vary, then the custom headers, then where the configuration
\* comes from, then a role ARN on a client whose host and region come from
\* the environment or the file.
LifeClients ==
    {[ZeroClient EXCEPT !.Host = "api.example", !.Region = "us-east-1",
                        !.LfaArn = lfa, !.LraArn = lra, !.Arn = arn] :
        lfa \in {"", "arn:lfa"}, lra \in {"", "arn:lra"}, arn \in {"", "arn:shared"}}
    \cup
    {[ZeroClient EXCEPT !.Host = "api.example", !.Region = "us-east-1",
                        !.LfaArn = "arn:lfa", !.LraArn = "arn:lra",
                        !.Headers = h, !.testData = td] :
        h \in HeaderChoices, td \in {0, 1}}
    \cup
    {[ZeroClient EXCEPT !.Host = host, !.Protocol = proto, !.Timeout = tmo,
                        !.CheckEnvironment = ce, !.credsFile = cf,
                        !.Logging = BitOr(LogSend, BitOr(LogReceive, BitOr(LogGet, LogLogin)))] :
        host \in {"", "api.example"}, proto \in {"", "ftp"}, tmo \in {0, -1},
        ce \in BOOLEAN, cf \in {"", "creds.json"}}
    \cup
    {[ZeroClient EXCEPT !.Protocol = proto, !.CheckEnvironment = ce,
                        !.credsFile = "creds.json", !.LfaArn = "arn:lfa"] :
        proto \in {"", "ftp"}, ce \in BOOLEAN}

Init ==
    /\ c \in LifeClients
    /\ env = LifeEnv
    /\ fs = LifeFile
    /\ call = NoCall
    /\ ret = NoRet
    /\ events = <<>>
    /\ pre = c

\* No call is in progress: the caller holds no result of the client.
Idle == call.op = "new"

DoInitialize ==
    /\ Idle
    /\ \E o \in RefreshOracles(initCon(c, env, fs).c) :
        \E r \in {Initialize(c, env, fs, o)} :
            /\ c' = r.c
            /\ call' = [NoCall EXCEPT !.op = "Initialize"]
            /\ ret' = [body |-> Nil, err |-> r.err]
            /\ events' = r.events
            /\ pre' = c
            /\ UNCHANGED <<env, fs>>

DoRefreshJwts ==
    /\ Idle
    /\ \E o \in RefreshOracles(c) :
        \E r \in {RefreshJwts(c, o)} :
            /\ c' = r.c
            /\ call' = [NoCall EXCEPT !.op = "RefreshJwts"]
            /\ ret' = [body |-> Nil, err |-> r.err]
            /\ events' = r.events
            /\ pre' = c
            /\ UNCHANGED <<env, fs>>

DoCommunicate ==
    /\ Idle
    /\ \E a \in CommCalls, o \in CommOracles(c) :
        \E r \in {Communicate(c, a.auth, a.method, a.path, a.input, a.output, a.creds, o)} :
            /\ o.net.kind = "signErr" => Len(a.creds) = 1
            /\ c' = c
            /\ call' = [op |-> "Communicate", auth |-> a.auth, method |-> a.method,
                        path |-> a.path, input |-> a.input, output |-> a.output,
                        creds |-> a.creds]
            /\ ret' = [body |-> r.body, err |-> r.err]
            /\ events' = r.events
            /\ pre' = c
            /\ UNCHANGED <<env, fs>>

DoLog ==
    /\ Idle
    /\ \E method \in {"GET", "POST", "PUT", "DELETE", "HEAD", ""} :
        /\ call' = [NoCall EXCEPT !.op = "Log", !.method = method]
        /\ ret' = NoRet
        /\ events' = Log(c, method, "msg")
        /\ pre' = c
        /\ UNCHANGED <<c, env, fs>>

\* The call has returned and the caller has taken its result: what was recorded
\* of the call is dropped, the client stays as the call left it.
Return ==
    /\ ~Idle
    /\ call' = NoCall
    /\ ret' = NoRet
    /\ events' = <<>>
    /\ pre' = c
    /\ UNCHANGED <<c, env, fs>>

Next == DoInitialize \/ DoRefreshJwts \/ DoCommunicate \/ DoLog \/ Return

Spec == Init /\ [][Next]_vars

(***************************************************************************)
(* The configuration resolver on its own: initCon on every combination of  *)
(* explicit field, environment variable and file value, one group of       *)
(* fields at a time.                                                       *)
(***************************************************************************)
\* The strings up to length n over an alphabet.
Strings(alphabet, n) == UNION {[1..k -> alphabet] : k \in 0..n}

TimeoutStrings == Strings({"-", "0", "3", "x"}, MaxDigits)
LoggingStrings == Strings({"get", "post", "zzz", ","}, MaxLogAtoms)
FileLoggingLists == Strings({"login", "bogus"}, MaxFileLog)

ConBase ==
    [ZeroClient EXCEPT !.Host = "api.example", !.Region = "us-east-1",
                       !.credsFile = "creds.json"]

FileOf(j) == [status |-> "ok", json |-> j]

\* Host and Region from every layer.
HostRegionInputs ==
    \E ce \in BOOLEAN,
       h1 \in {"", "api.example"}, h2 \in {"", "env.example"}, h3 \in {"", "file.example"},
       r1 \in {"", "us-east-1"}, r2 \in {"", "eu-west-1"}, r3 \in {"", "ap-south-1"} :
        /\ c = [ConBase EXCEPT !.CheckEnvironment = ce, !.Host = h1, !.Region = r1]
        /\ env = [EmptyEnv EXCEPT !.HOST = h2, !.REGION = r2]
        /\ fs = FileOf([EmptyJson EXCEPT !.Host = h3, !.Region = r3])

\* Protocol and Timeout from every layer.
ProtocolTimeoutInputs ==
    \E ce \in BOOLEAN,
       p1 \in {"", "http", "ftp"}, p2 \in {"", "https", "gopher"}, p3 \in {"", "http"},
       t1 \in {0, 5, -1}, t2 \in TimeoutStrings, t3 \in {0, 7, -2} :
        /\ c = [ConBase EXCEPT !.CheckEnvironment = ce, !.Protocol = p1, !.Timeout = t1]
        /\ env = [EmptyEnv EXCEPT !.PROTOCOL = p2, !.TIMEOUT = t2]
        /\ fs = FileOf([EmptyJson EXCEPT !.Protocol = p3, !.Timeout = t3])

\* The logging bitmask from every layer.
LoggingInputs ==
    \E ce \in BOOLEAN, l1 \in {0, LogGet}, l2 \in LoggingStrings, l3 \in FileLoggingLists :
        /\ c = [ConBase EXCEPT !.CheckEnvironment = ce, !.Logging = l1]
        /\ env = [EmptyEnv EXCEPT !.LOGGING = l2]
        /\ fs = FileOf([EmptyJson EXCEPT !.LoggingFromInitialize = l3])

\* The skip-verify flag and the headers from every layer.
VerifyHeadersInputs ==
    \E ce \in BOOLEAN, v1 \in BOOLEAN, v2 \in {"", "true", "0", "yes"}, v3 \in BOOLEAN,
       h1 \in {NoHeaders, [k \in {"X-Custom"} |-> "x"]},
       h2 \in {"", "{}", "{\"X-Env\":\"e\"}", "not json"},
       h3 \in {NoHeaders, [k \in {"X-File"} |-> "f"]} :
        /\ c = [ConBase EXCEPT !.CheckEnvironment = ce, !.SkipVerifyCertificate = v1,
                               !.Headers = h1]
        /\ env = [EmptyEnv EXCEPT !.VERIFY_CERTIFICATE = v2, !.HEADERS = h2]
        /\ fs = FileOf([EmptyJson EXCEPT !.SkipVerifyCertificate = v3, !.Headers = h3])

\* The credentials file itself, the transport override and the test data.
FileInputs ==
    \E cf \in {"", "creds.json"}, tr \in {NilTransport, CustomTransport}, td \in {0, 1},
       ac \in {BadBytes, FileOf([EmptyJson EXCEPT !.Host = "test.example"])},
       f \in {NoFile, BadBytes, FileOf([EmptyJson EXCEPT !.Host = "file.example"])} :
        /\ c = [ZeroClient EXCEPT !.Region = "us-east-1", !.credsFile = cf,
                                  !.Transport = tr, !.testData = td,
                                  !.authFileContent = ac]
        /\ env = EmptyEnv
        /\ fs = f

\* The client, the environment and the file that initCon finds.
ConInputs ==
    \/ HostRegionInputs
    \/ ProtocolTimeoutInputs
    \/ LoggingInputs
    \/ VerifyHeadersInputs
    \/ FileInputs

InitCon ==
    /\ ConInputs
    /\ call = NoCall
    /\ ret = NoRet
    /\ events = <<>>
    /\ pre = c

DoInitCon ==
    /\ Idle
    /\ \E r \in {initCon(c, env, fs)} :
            /\ c' = r.c
            /\ call' = [NoCall EXCEPT !.op = "initCon"]
            /\ ret' = [body |-> Nil, err |-> r.err]
            /\ events' = <<>>
            /\ pre' = c
            /\ UNCHANGED <<env, fs>>

NextCon == DoInitCon \/ Return

SpecCon == InitCon /\ [][NextCon]_vars

(***************************************************************************)
(* What was recorded of the call that has just returned.                   *)
(***************************************************************************)
IsSend(e) == e.ev = "send"
IsRecv(e) == e.ev = "recv"
IsSign(e) == e.ev = "sign"
IsAssume(e) == e.ev = "assume"
IsWrite(e) == e.ev = "write"
IsSet(e) == e.ev = "set"
IsStub(e) == e.ev = "stub"

Sends == SelectSeq(events, IsSend)
Recvs == SelectSeq(events, IsRecv)
Signs == SelectSeq(events, IsSign)
Assumes == SelectSeq(events, IsAssume)
Writes == SelectSeq(events, IsWrite)
Stubs == SelectSeq(events, IsStub)

CommunicateDone == call.op = "Communicate"
RefreshDone == call.op = "RefreshJwts"
InitializeDone == call.op = "Initialize"
InitConDone == call.op = "initCon"

\* The custom header map has a key that http.Header.Set files under Authorization.
HasAuthKey(custom) == \E k \in DOMAIN custom : CanonicalKey(k) = "Authorization"

AssumeAt(k) ==
    CHOOSE i \in 1..Len(events) :
        IsAssume(events[i]) /\ Len(SelectSeq(SubSeq(events, 1, i), IsAssume)) = k

\* The events of the k-th role block: from its role assumption to the next one.
StepEvents(k) ==
    SubSeq(events, AssumeAt(k),
           IF Len(Assumes) > k THEN AssumeAt(k + 1) - 1 ELSE Len(events))

\* The errors with which a role block whose events are evs can have ended
\* ({} when the role was assumed and its token fetched).
StepErrors(evs, cl) ==
    LET has(kind) == \E i \in 1..Len(evs) : evs[i].ev = kind
        body      == SelectSeq(evs, IsRecv)[1].b
    IN  IF has("stub") THEN {"json: cannot unmarshal"}
        ELSE IF ~has("sign") THEN {"AssumeRole failed"}
        ELSE IF ~has("send")
        THEN (IF cl.con.set THEN {"sign failed"} ELSE {"sign failed", NilConPanic})
        ELSE IF has("recvErr") THEN {"read error"}
        ELSE IF ~has("recv") THEN {"transport error"}
        ELSE IF ~Unmarshal(body).ok THEN {"json: cannot unmarshal"}
        ELSE IF ~Ok(Unmarshal(body)) THEN {"output"}
        ELSE {}

\* C3: in RefreshJwts with both role ARNs set, once the firewall role block is
\* entered: if it fails, RefreshJwts returns its error, both tokens keep their
\* values and the rulestack role is never assumed; if it succeeds and the
\* rulestack block fails, RefreshJwts returns that error, FirewallJwt holds
\* the token just fetched and RulestackJwt the value from before the call.
\* (On a client whose connection was never built the firewall block ends in
\* the panic of c.con.Do, or in the signer's error: both tokens keep their
\* values then too.)
C3_PartialRefresh ==
    (RefreshDone /\ pre.LfaArn # "" /\ pre.LraArn # "" /\ Assumes # <<>>) =>
        /\ Assumes[1].a = pre.LfaArn
        /\ IF StepErrors(StepEvents(1), pre) # {}
           THEN /\ ret.err \in StepErrors(StepEvents(1), pre)
                /\ c.FirewallJwt = pre.FirewallJwt
                /\ c.RulestackJwt = pre.RulestackJwt
                /\ Len(Assumes) = 1
                /\ Len(Sends) <= 1
           ELSE /\ c.FirewallJwt = Unmarshal(Recvs[1].b).jwt
                /\ Len(Assumes) = 2
                /\ Assumes[2].a = pre.LraArn
                /\ StepErrors(StepEvents(2), pre) # {} =>
                      /\ ret.err \in StepErrors(StepEvents(2), pre)
                      /\ c.RulestackJwt = pre.RulestackJwt

\* The firewall token was replaced by a new one and the rulestack block then
\* failed: the old rulestack token is still there.
C3_Witness ==
    /\ RefreshDone
    /\ pre.LfaArn # "" /\ pre.LraArn # ""
    /\ pre.FirewallJwt = "t1" /\ pre.RulestackJwt = "t1"
    /\ Len(Assumes) = 2
    /\ ret.err = "transport error"
    /\ c.FirewallJwt = "t2" /\ c.RulestackJwt = "t1"

(***************************************************************************)
(* C4: the shared ARN.                                                     *)
(***************************************************************************)
\* C4 as stated: with a non-empty Arn, RefreshJwts always fails with the
\* shared-ARN error, assumes no role, sends no request and leaves both tokens.
C4_AsStated ==
    (RefreshDone /\ pre.Arn # "") =>
        /\ ret.err = SharedArnError
        /\ Assumes = <<>> /\ Sends = <<>>
        /\ c.FirewallJwt = pre.FirewallJwt /\ c.RulestackJwt = pre.RulestackJwt

IsSession(e) == e.ev = "session"
Sessions == SelectSeq(events, IsSession)

\* C4, amended: with a non-empty Arn, RefreshJwts always fails, assumes no
\* role, signs and sends no request and leaves the client as it was; the error
\* is the shared-ARN error when the AWS session could be created, and the
\* session's error when it could not.
C4_SharedArn ==
    (RefreshDone /\ pre.Arn # "") =>
        /\ Len(Sessions) = 1
        /\ ret.err = IF Sessions[1].a = "ok" THEN SharedArnError ELSE "session error"
        /\ Assumes = <<>> /\ Signs = <<>> /\ Sends = <<>> /\ Writes = <<>>
        /\ c = pre

\* A client with all three ARNs set was refused with the shared-ARN error.
C4_Witness ==
    /\ RefreshDone
    /\ pre.Arn # "" /\ pre.LfaArn # "" /\ pre.LraArn # ""
    /\ pre.con.set
    /\ ret.err = SharedArnError

(***************************************************************************)
(* C5, C6, C7: what Communicate returns.                                   *)
(***************************************************************************)
\* The body Communicate worked on, when it got one: the response's or the stub.
GotBody == Recvs # <<>> \/ Stubs # <<>>
TheBody == IF Recvs # <<>> THEN Recvs[1].b ELSE Stubs[1].b

\* C5: given an output target and a body: a body that deserializes but whose
\* Ok() is false comes back with the output target as the (non-nil) error; a
\* body that does not deserialize comes back with the parse error; the error
\* is nil only when the body deserializes and Ok() is true.
C5_SuccessPredicate ==
    (CommunicateDone /\ call.output # Nil) =>
        /\ GotBody =>
              /\ ret.body = TheBody
              /\ (Unmarshal(TheBody).ok /\ ~Ok(Unmarshal(TheBody))) => ret.err = "output"
              /\ ~Unmarshal(TheBody).ok => ret.err = "json: cannot unmarshal"
              /\ ret.err = Nil <=> (Unmarshal(TheBody).ok /\ Ok(Unmarshal(TheBody)))
        /\ ret.err = Nil => GotBody

\* A response that parses and carries an error code came back with the output
\* target as the error.
C5_Witness ==
    /\ CommunicateDone
    /\ call.output # Nil
    /\ Recvs # <<>>
    /\ Recvs[1].b = "{\"ErrorCode\":7}"
    /\ ret.body = "{\"ErrorCode\":7}"
    /\ ret.err = "output"

\* C6: once a response has been received and read, what Communicate returns
\* is fixed by the body and the output target, whatever the HTTP status: the
\* raw body, with a nil error when there is no output target.
C6_StatusIgnored ==
    (CommunicateDone /\ Recvs # <<>>) =>
        /\ Recvs[1].a \in Statuses
        /\ ret.body = Recvs[1].b
        /\ ret.err = IF call.output = Nil THEN Nil
                     ELSE IF ~Unmarshal(Recvs[1].b).ok THEN "json: cannot unmarshal"
                     ELSE IF ~Ok(Unmarshal(Recvs[1].b)) THEN "output"
                     ELSE Nil

\* A 500 response without an output target came back as its body and no error.
C6_Witness ==
    /\ CommunicateDone
    /\ call.output = Nil
    /\ Recvs # <<>>
    /\ Recvs[1].a = "500"
    /\ Recvs[1].b = "{\"ErrorCode\":7}"
    /\ ret = [body |-> "{\"ErrorCode\":7}", err |-> Nil]

\* C7: a Communicate call with two or more credential sets returns a nil body
\* and an error before anything else happens (nothing is logged, built, signed
\* or sent) and leaves the client as it was.
C7_CredentialGuard ==
    (CommunicateDone /\ Len(call.creds) >= 2) =>
        /\ ret = [body |-> Nil, err |-> "Only one credentials is allowed"]
        /\ events = <<>>
        /\ c = pre

\* Two credential sets were given to an initialized client that logs what it
\* sends.
C7_Witness ==
    /\ CommunicateDone
    /\ Len(call.creds) = 2
    /\ pre.con.set /\ pre.testData = 0
    /\ HasFlag(pre.Logging, LogSend)
    /\ ret.err # Nil

(***************************************************************************)
(* The layers of the configuration as the call found them.                 *)
(***************************************************************************)
\* The credentials file as the call read it, and whether it could.
FileJson == LoadFile(pre, fs).j
FileLoaded == LoadFile(pre, fs).err = Nil

\* An environment variable as the call saw it: empty unless CheckEnvironment.
EnvString(name) == IF pre.CheckEnvironment THEN env[name] ELSE ""
EnvTimeout == IF pre.CheckEnvironment THEN env.TIMEOUT ELSE <<>>

\* The first non-empty string of a sequence of sources, "" when there is none.
RECURSIVE FirstSet(_)
FirstSet(srcs) ==
    IF srcs = <<>> THEN ""
    ELSE IF Head(srcs) # "" THEN Head(srcs) ELSE FirstSet(Tail(srcs))

\* The first non-zero number of a sequence of sources, 0 when there is none.
RECURSIVE FirstNonZero(_)
FirstNonZero(srcs) ==
    IF srcs = <<>> THEN 0
    ELSE IF Head(srcs) # 0 THEN Head(srcs) ELSE FirstNonZero(Tail(srcs))

\* The protocol by precedence: explicit, environment, file, default.
ResolvedProtocol ==
    FirstSet(<<pre.Protocol, EnvString("PROTOCOL"), FileJson.Protocol, "https">>)

\* initCon got as far as its timeout block, and as far as its logging block.
TimeoutReached == FileLoaded /\ ResolvedProtocol \in {"http", "https"}
LoggingReached ==
    ret.err \in {Nil, "Unknown logging requested", "No region specified", "No host specified"}

(***************************************************************************)
(* C2: precedence of the configuration sources.                            *)
(***************************************************************************)
\* The timeout by precedence, zero counting as not set: explicit, environment,
\* file, default.
FirstNonZeroTimeout ==
    FirstNonZero(<<pre.Timeout, Atoi(EnvTimeout).val, FileJson.Timeout, 20>>)

\* C2 as stated: where the file loads, the protocol is valid, the timeout of
\* the environment is a number and the first non-zero timeout is positive, each
\* of Host, Region, Protocol and Timeout resolves to its first non-empty
\* (non-zero for Timeout) source in the order explicit field, environment
\* variable, file value, default.
C2_AsStated ==
    (InitConDone /\ TimeoutReached /\ (EnvTimeout # <<>> => Atoi(EnvTimeout).ok)
        /\ FirstNonZeroTimeout > 0) =>
        /\ c.Host = FirstSet(<<pre.Host, EnvString("HOST"), FileJson.Host>>)
        /\ c.Region = FirstSet(<<pre.Region, EnvString("REGION"), FileJson.Region>>)
        /\ c.Protocol = ResolvedProtocol
        /\ c.Timeout = FirstNonZeroTimeout

\* C2, amended: an explicitly set Host, Region, Protocol or Timeout is never
\* replaced; Host, Region and Protocol resolve to the first non-empty source in
\* the order explicit, environment, file, default; Timeout resolves to the
\* explicit value if non-zero, else to the number in the environment variable
\* whenever that variable is non-empty, else to the file value if non-zero, else
\* to 20; and a non-empty environment timeout of zero or less makes the
\* resolution fail instead of falling through to the file or the default.
C2_Precedence ==
    InitConDone =>
        /\ pre.Host # "" => c.Host = pre.Host
        /\ pre.Region # "" => c.Region = pre.Region
        /\ pre.Protocol # "" => c.Protocol = pre.Protocol
        /\ pre.Timeout # 0 => c.Timeout = pre.Timeout
        /\ (TimeoutReached /\ (EnvTimeout # <<>> => Atoi(EnvTimeout).ok)) =>
              /\ c.Host = FirstSet(<<pre.Host, EnvString("HOST"), FileJson.Host>>)
              /\ c.Region = FirstSet(<<pre.Region, EnvString("REGION"), FileJson.Region>>)
              /\ c.Protocol = ResolvedProtocol
              /\ c.Timeout = IF pre.Timeout # 0 THEN pre.Timeout
                             ELSE IF EnvTimeout # <<>> THEN Atoi(EnvTimeout).val
                             ELSE FirstNonZero(<<FileJson.Timeout, 20>>)
              /\ (pre.Timeout = 0 /\ EnvTimeout # <<>> /\ Atoi(EnvTimeout).val <= 0) =>
                    ret.err = "Timeout must be a positive int"

\* The environment's protocol won over the file's, and the file's timeout over
\* the default.
C2_Witness ==
    /\ InitConDone
    /\ ret.err = Nil
    /\ pre.CheckEnvironment
    /\ pre.Protocol = "" /\ env.PROTOCOL = "https" /\ FileJson.Protocol = "http"
    /\ c.Protocol = "https"
    /\ pre.Timeout = 0 /\ env.TIMEOUT = <<>> /\ FileJson.Timeout = 7
    /\ c.Timeout = 7

(***************************************************************************)
(* C8: the configuration after Initialize.                                 *)
(***************************************************************************)
\* C8 as stated: whenever Initialize returns without error, the protocol is
\* http or https, the timeout is positive and region and host are non-empty.
C8_AsStated ==
    (InitializeDone /\ ret.err = Nil) =>
        /\ c.Protocol \in {"http", "https"}
        /\ c.Timeout > 0
        /\ c.Region # ""
        /\ c.Host # ""

\* C8, amended: whenever Initialize of a client without preloaded test data
\* returns without error, the protocol is http or https, the timeout is
\* positive and region and host are non-empty; and whenever the protocol it
\* resolves is not exactly http or https, it fails with an error.
C8_ResolvedConfig ==
    (InitializeDone /\ pre.testData = 0) =>
        /\ ret.err = Nil =>
              /\ c.Protocol \in {"http", "https"}
              /\ c.Timeout > 0
              /\ c.Region # ""
              /\ c.Host # ""
              /\ c.con.set /\ c.con.Timeout = c.Timeout
        /\ ResolvedProtocol \notin {"http", "https"} =>
              /\ ret.err # Nil
              /\ FileLoaded => ret.err = "Invalid protocol"

\* Initialize succeeded on a client that named neither protocol nor timeout.
C8_Witness ==
    /\ InitializeDone
    /\ pre.testData = 0
    /\ ret.err = Nil
    /\ pre.Protocol = "" /\ pre.Timeout = 0 /\ pre.Region = ""
    /\ c.Protocol = "https" /\ c.Timeout = 20 /\ c.Region = "eu-west-1"
    /\ c.Host = "api.example"

(***************************************************************************)
(* C9: validation of the timeout.                                          *)
(***************************************************************************)
\* C9: in initCon, a timeout that resolves to zero or less, be it the explicit
\* field, the number in the environment variable or the file value, always
\* makes the resolution fail, and so does an environment timeout that is read
\* and is not an integer; a resolution that succeeds leaves a positive timeout.
C9_TimeoutValidation ==
    InitConDone =>
        /\ pre.Timeout < 0 =>
              /\ ret.err # Nil
              /\ TimeoutReached => ret.err = "Timeout must be a positive int"
        /\ (pre.Timeout = 0 /\ EnvTimeout # <<>> /\ ~Atoi(EnvTimeout).ok) =>
              /\ ret.err # Nil
              /\ TimeoutReached => ret.err = "Failed to parse timeout env var as int"
        /\ (pre.Timeout = 0 /\ EnvTimeout # <<>> /\ Atoi(EnvTimeout).ok
               /\ Atoi(EnvTimeout).val <= 0) =>
              /\ ret.err # Nil
              /\ TimeoutReached => ret.err = "Timeout must be a positive int"
        /\ (pre.Timeout = 0 /\ EnvTimeout = <<>> /\ FileJson.Timeout < 0) =>
              /\ ret.err # Nil
              /\ TimeoutReached => ret.err = "Timeout must be a positive int"
        /\ ret.err = Nil => c.Timeout > 0

\* An environment timeout of "0" was refused although the file offered 7.
C9_Witness ==
    /\ InitConDone
    /\ pre.Timeout = 0 /\ pre.CheckEnvironment
    /\ env.TIMEOUT = <<"0">>
    /\ FileJson.Timeout = 7
    /\ ret.err = "Timeout must be a positive int"

(***************************************************************************)
(* C10: the logging bitmask.                                               *)
(***************************************************************************)
\* The logging list of the call: the environment's when it is read and
\* non-empty, else the file's.
TheLoggingList ==
    IF pre.CheckEnvironment /\ env.LOGGING # <<>> THEN Split(env.LOGGING)
    ELSE FileJson.LoggingFromInitialize

\* The bitwise OR of a set of distinct single-bit flags is their sum.
RECURSIVE SumOf(_)
SumOf(S) == IF S = {} THEN 0 ELSE LET x == CHOOSE y \in S : TRUE IN x + SumOf(S \ {x})

\* C10: in initCon with the explicit bitmask zero, an unrecognized token in the
\* logging list (the environment's or the file's) always makes the resolution
\* fail; a non-empty list of known tokens resolves to exactly the OR of their
\* flags; an empty list resolves to the default {login, post, put, delete}.
C10_LoggingBitmask ==
    (InitConDone /\ pre.Logging = 0) =>
        LET ll    == TheLoggingList
            flags == {LogFlagOf(ll[i]) : i \in 1..Len(ll)}
        IN  /\ 0 \in flags =>
                  /\ ret.err # Nil
                  /\ LoggingReached =>
                        ret.err = "Unknown logging requested" /\ c.Logging = 0
            /\ (LoggingReached /\ ll # <<>> /\ 0 \notin flags) =>
                  c.Logging = SumOf(flags)
            /\ (LoggingReached /\ ll = <<>>) =>
                  c.Logging = LogLogin + LogPost + LogPut + LogDelete

\* The environment asked for get and post and the bitmask is exactly the two.
C10_Witness ==
    /\ InitConDone
    /\ pre.Logging = 0 /\ pre.CheckEnvironment
    /\ env.LOGGING = <<"get", ",", "post">>
    /\ ret.err = Nil
    /\ c.Logging = LogGet + LogPost

(***************************************************************************)
(* C11: the environment is read only with CheckEnvironment.                *)
(***************************************************************************)
\* Other environments to run the same client and file under: none of the
\* variables set, all of them set to values that resolve, all of them set to
\* values that do not parse.
OtherEnvs ==
    {EmptyEnv,
     [HOST |-> "other.example", REGION |-> "sa-east-1", PROTOCOL |-> "http",
      TIMEOUT |-> <<"3">>, HEADERS |-> "{\"X-Env\":\"e\"}",
      VERIFY_CERTIFICATE |-> "true", LOGGING |-> <<"get">>],
     [HOST |-> "bad.example", REGION |-> "nowhere", PROTOCOL |-> "gopher",
      TIMEOUT |-> <<"x">>, HEADERS |-> "not json",
      VERIFY_CERTIFICATE |-> "yes", LOGGING |-> <<"zzz">>]}

\* C11: with CheckEnvironment false, initCon on the same client and file gives
\* the same client (host, region, protocol, timeout, headers, skip-verify,
\* logging and the rest) and the same error under any other environment as
\* under the one it ran in: no environment value, malformed or not, has a say.
C11_EnvironmentGating ==
    (InitConDone /\ ~pre.CheckEnvironment) =>
        \A e \in OtherEnvs :
            /\ initCon(pre, e, fs).err = ret.err
            /\ initCon(pre, e, fs).c = c

\* A timeout variable that is not a number was in the environment and initCon
\* resolved the default timeout without error.
C11_Witness ==
    /\ InitConDone
    /\ ~pre.CheckEnvironment
    /\ pre.Timeout = 0
    /\ env.TIMEOUT = <<"x">>
    /\ env.PROTOCOL = "gopher"
    /\ ret.err = Nil
    /\ c.Timeout = 20

(***************************************************************************)
(* C12: the skip-verify flag.                                              *)
(***************************************************************************)
\* initCon got as far as its verify block.
VerifyReached ==
    ret.err \in {Nil, "verify env var is not a bool", "Unknown logging requested",
                 "No region specified", "No host specified"}

\* The boolean in the environment variable as the call read it.
EnvVerify == ParseBool(EnvString("VERIFY_CERTIFICATE"))

\* C12: an explicit SkipVerifyCertificate of true stays true; where initCon
\* gets through its verify block the flag is the OR of the explicit flag, the
\* boolean parsed from the environment variable and the file's flag, so it is
\* false only if all three are; and an environment value that is read and is
\* not a boolean makes the resolution fail.
C12_SkipVerifyOr ==
    InitConDone =>
        /\ pre.SkipVerifyCertificate => c.SkipVerifyCertificate
        /\ (VerifyReached /\ ret.err # "verify env var is not a bool") =>
              c.SkipVerifyCertificate =
                  (pre.SkipVerifyCertificate \/ EnvVerify.val
                      \/ FileJson.SkipVerifyCertificate)
        /\ (~pre.SkipVerifyCertificate /\ EnvString("VERIFY_CERTIFICATE") # ""
               /\ ~EnvVerify.ok) =>
              /\ ret.err # Nil
              /\ VerifyReached => ret.err = "verify env var is not a bool"
              /\ ~c.SkipVerifyCertificate

\* The environment turned the flag on and the file, which has it off, did not
\* turn it off again.
C12_Witness ==
    /\ InitConDone
    /\ ~pre.SkipVerifyCertificate
    /\ pre.CheckEnvironment
    /\ env.VERIFY_CERTIFICATE = "true"
    /\ ~FileJson.SkipVerifyCertificate
    /\ ret.err = Nil
    /\ c.SkipVerifyCertificate

(***************************************************************************)
(* C13: which token RefreshJwts writes.                                    *)
(***************************************************************************)
\* RefreshJwts has run: called by itself, or by Initialize after initCon.
RefreshRan ==
    \/ RefreshDone
    \/ InitializeDone /\ events # <<>> /\ events[1].ev = "initCon" /\ events[1].a = Nil

\* The place of the rulestack block among the role assumptions of the call
\* (the firewall block, when there is one, is the first).
RulestackStepNo == IF pre.LfaArn # "" THEN 2 ELSE 1

\* The role block numbered k ran, for the role arn, and fetched its token.
StepSucceeded(k, arn) ==
    /\ Len(Assumes) >= k
    /\ Assumes[k].a = arn
    /\ StepErrors(StepEvents(k), pre) = {}

\* C13: a successful RefreshJwts with only the firewall role ARN set makes
\* exactly one token-fetch request, a GET of v1/mgmt/tokens/cloudfirewalladmin
\* under the base URI, stores the token of the response in FirewallJwt and
\* leaves RulestackJwt as it was (empty if it was empty).  In general a token
\* field is written only if its role ARN is non-empty and its role's assumption
\* and token fetch succeeded, and with the token fetched; a field that is not
\* written keeps its value.
C13_TokenWrites ==
    RefreshRan =>
        /\ (pre.LfaArn # "" /\ pre.LraArn = "" /\ ret.err = Nil) =>
              /\ Len(Sends) = 1
              /\ Sends[1].a = "GET"
              /\ Sends[1].b = c.apiPrefix \o "/v1/mgmt/tokens/cloudfirewalladmin"
              /\ Len(Recvs) = 1
              /\ c.FirewallJwt = Unmarshal(Recvs[1].b).jwt
              /\ c.RulestackJwt = pre.RulestackJwt
        /\ \A i \in 1..Len(Writes) :
              \/ /\ Writes[i].a = "FirewallJwt"
                 /\ pre.LfaArn # ""
                 /\ StepSucceeded(1, pre.LfaArn)
                 /\ Writes[i].b = Unmarshal(SelectSeq(StepEvents(1), IsRecv)[1].b).jwt
                 /\ c.FirewallJwt = Writes[i].b
              \/ /\ Writes[i].a = "RulestackJwt"
                 /\ pre.LraArn # ""
                 /\ StepSucceeded(RulestackStepNo, pre.LraArn)
                 /\ Writes[i].b = Unmarshal(SelectSeq(StepEvents(RulestackStepNo), IsRecv)[1].b).jwt
                 /\ c.RulestackJwt = Writes[i].b
        /\ (\A i \in 1..Len(Writes) : Writes[i].a # "FirewallJwt") =>
              c.FirewallJwt = pre.FirewallJwt
        /\ (\A i \in 1..Len(Writes) : Writes[i].a # "RulestackJwt") =>
              c.RulestackJwt = pre.RulestackJwt
        /\ pre.LfaArn = "" => c.FirewallJwt = pre.FirewallJwt
        /\ pre.LraArn = "" => c.RulestackJwt = pre.RulestackJwt

\* Scenario B: both tokens empty, only the firewall role set, and the refresh
\* stored the token it fetched with one request.
C13_Witness ==
    /\ RefreshRan
    /\ pre.FirewallJwt = "" /\ pre.RulestackJwt = ""
    /\ pre.LfaArn # "" /\ pre.LraArn = ""
    /\ ret.err = Nil
    /\ Len(Sends) = 1
    /\ Sends[1].b = "https://api.example/v1/mgmt/tokens/cloudfirewalladmin"
    /\ c.FirewallJwt = "t1" /\ c.RulestackJwt = ""

(***************************************************************************)
(* C14: the client with preloaded test data.                               *)
(***************************************************************************)
\* No request was built (no header set), signed, sent or answered.
NoRequest ==
    \A i \in 1..Len(events) : events[i].ev \notin {"set", "sign", "send", "recv", "recvErr"}

\* Initialize with test data: nothing is resolved, no role is assumed, no
\* token is fetched; only Host is set.
OfflineInitialize ==
    (InitializeDone /\ pre.testData > 0) =>
        /\ ret.err = Nil
        /\ events = <<>>
        /\ c = [pre EXCEPT !.Host = "test.nz"]

\* C14 as stated: with test data preloaded every Communicate call, whatever its
\* scope, method, path, payload, output target and credentials, returns the
\* stub body and builds, signs and sends nothing; Initialize resolves nothing,
\* assumes no role and fetches no token.
C14_AsStated ==
    /\ (CommunicateDone /\ pre.testData > 0) =>
          /\ ret.body = StubBody
          /\ NoRequest
    /\ OfflineInitialize

\* C14, amended: with test data preloaded no Communicate call builds, signs or
\* sends a request; a call with two or more credential sets, or with a payload
\* that does not serialize, returns a nil body and an error; every other call,
\* whatever its scope, method and path, returns the stub body (with a nil
\* error when there is no output target, with the parse error of the stub when
\* there is one).  Initialize resolves nothing, assumes no role and fetches no
\* token.
C14_OfflineMode ==
    /\ (CommunicateDone /\ pre.testData > 0) =>
          /\ NoRequest
          /\ c = pre
          /\ IF Len(call.creds) > 1
             THEN ret = [body |-> Nil, err |-> "Only one credentials is allowed"]
             ELSE IF call.input # Nil /\ ~Marshal(call.input).ok
             THEN ret.body = Nil /\ ret.err # Nil
             ELSE /\ ret.body = StubBody
                  /\ Len(Stubs) = 1
                  /\ ret.err = IF call.output = Nil THEN Nil ELSE "json: cannot unmarshal"
    /\ OfflineInitialize

\* A call with a scope that is no scope, a method that is no method and one
\* credential set came back with the stub body and no error.
C14_Witness ==
    /\ CommunicateDone
    /\ pre.testData > 0
    /\ call.auth = "admin"
    /\ call.method = "BAD METHOD"
    /\ Len(call.creds) = 1
    /\ ret = [body |-> StubBody, err |-> Nil]

(***************************************************************************)
(* C15: the log gate.                                                      *)
(***************************************************************************)
LogDone == call.op = "Log"

\* The method is one of the four that Log knows and its bit is set in Logging.
MethodBitSet ==
    \/ call.method = "GET" /\ HasFlag(pre.Logging, LogGet)
    \/ call.method = "POST" /\ HasFlag(pre.Logging, LogPost)
    \/ call.method = "PUT" /\ HasFlag(pre.Logging, LogPut)
    \/ call.method = "DELETE" /\ HasFlag(pre.Logging, LogDelete)

\* C15: Log prints a line (one, for its method) if and only if the method is
\* GET, POST, PUT or DELETE and that method's bit is set in Logging; for any
\* other method it prints nothing whatever the bitmask; it never changes the
\* client.
C15_LogGate ==
    LogDone =>
        /\ events # <<>> <=> MethodBitSet
        /\ events # <<>> =>
              /\ Len(events) = 1
              /\ events[1].ev = "log" /\ events[1].a = call.method
        /\ call.method \notin {"GET", "POST", "PUT", "DELETE"} => events = <<>>
        /\ c = pre

\* PUT was logged by a client whose bitmask has the bit of PUT and not of GET.
C15_Witness ==
    /\ LogDone
    /\ call.method = "PUT"
    /\ HasFlag(pre.Logging, LogPut) /\ ~HasFlag(pre.Logging, LogGet)
    /\ Len(events) = 1

(***************************************************************************)
(* C16: the order of the steps of one online Communicate call.             *)
(***************************************************************************)
Sets == SelectSeq(events, IsSet)

\* The place of the first event of a kind in events, 0 when there is none.
FirstAt(kind) ==
    IF \E i \in 1..Len(events) : events[i].ev = kind
    THEN CHOOSE i \in 1..Len(events) :
            events[i].ev = kind /\ \A j \in 1..(i - 1) : events[j].ev # kind
    ELSE 0

\* The header map that a sequence of Header.Set calls leaves.
RECURSIVE Replay(_)
Replay(sets) ==
    IF sets = <<>> THEN NoHeaders
    ELSE LET h == Replay(SubSeq(sets, 1, Len(sets) - 1))
             e == sets[Len(sets)]
         IN  [x \in DOMAIN h \cup {e.a} |-> IF x = e.a THEN e.b ELSE h[x]]

\* The headers the signer writes.
SignerKeys == {"Authorization", "X-Amz-Date", "X-Amz-Security-Token"}

\* C16: in one online Communicate call, Content-Type is set first, then the
\* scope's Authorization header, then the custom headers; the request is signed
\* after all of them, if and only if exactly one credential set was given, so
\* the signer sees the final header set; the request is sent after that and at
\* most once; a transport error is returned without a second send; nothing is
\* sent after a build, scope or signing error.
C16_DispatchOrder ==
    (CommunicateDone /\ pre.testData = 0) =>
        /\ Len(Sends) <= 1 /\ Len(Signs) <= 1
        /\ Sets # <<>> => Sets[1].a = "Content-Type"
        /\ (Len(Sets) >= 2 /\ call.auth \in {PermFirewall, PermRulestack}) =>
              /\ Sets[2].a = "Authorization"
              /\ Sets[2].b = IF call.auth = PermFirewall
                             THEN pre.FirewallJwt ELSE pre.RulestackJwt
        /\ (Signs # <<>> \/ Sends # <<>>) =>
              Len(Sets) = 1 + (IF call.auth = "" THEN 0 ELSE 1)
                            + Cardinality(DOMAIN pre.Headers)
        /\ \A i, j \in 1..Len(events) :
              /\ (events[i].ev = "set" /\ events[j].ev \in {"sign", "send"}) => i < j
              /\ (events[i].ev = "sign" /\ events[j].ev = "send") => i < j
        /\ Signs # <<>> => Len(call.creds) = 1 /\ Signs[1].h = Replay(Sets)
        /\ Sends # <<>> =>
              /\ Len(Signs) = 1 <=> Len(call.creds) = 1
              /\ \A k \in DOMAIN Replay(Sets) \ (IF Signs # <<>> THEN SignerKeys ELSE {}) :
                    k \in DOMAIN Sends[1].h /\ Sends[1].h[k] = Replay(Sets)[k]
        /\ ret.err = "transport error" =>
              Len(Sends) = 1 /\ Recvs = <<>> /\ ret.body = Nil
        /\ ret.err \in {"net/http: invalid method", "Unknown auth type", "sign failed"} =>
              Sends = <<>>

\* A signed request with custom headers went out under scope firewall: the
\* signer saw the custom header.
C16_Witness ==
    /\ CommunicateDone
    /\ pre.testData = 0
    /\ call.auth = PermFirewall
    /\ Len(call.creds) = 1
    /\ "X-Custom" \in DOMAIN pre.Headers
    /\ Len(Signs) = 1 /\ Len(Sends) = 1
    /\ "X-Custom" \in DOMAIN Signs[1].h
    /\ FirstAt("sign") < FirstAt("send")

(***************************************************************************)
(* C17: Initialize resolves first and refreshes afterwards.                *)
(***************************************************************************)
\* The host by precedence: explicit, environment, file.
ResolvedHost == FirstSet(<<pre.Host, EnvString("HOST"), FileJson.Host>>)

\* C17: Initialize without test data resolves the configuration first; if
\* that fails it returns the resolution's error, assumes no role, signs and
\* sends nothing and leaves both tokens; if it succeeds, every token-fetch
\* request that follows goes to {protocol}://{host}/v1/mgmt/tokens/..., with
\* the protocol and the host that were resolved.
C17_InitializeOrder ==
    (InitializeDone /\ pre.testData = 0) =>
        /\ events # <<>> /\ events[1].ev = "initCon"
        /\ \A i \in 2..Len(events) : events[i].ev # "initCon"
        /\ events[1].a = initCon(pre, env, fs).err
        /\ events[1].a # Nil =>
              /\ ret.err = events[1].a
              /\ Len(events) = 1
              /\ Assumes = <<>> /\ Signs = <<>> /\ Sends = <<>> /\ Writes = <<>>
              /\ c.FirewallJwt = pre.FirewallJwt
              /\ c.RulestackJwt = pre.RulestackJwt
        /\ \A i \in 1..Len(Sends) :
              /\ c.Protocol = ResolvedProtocol /\ c.Protocol \in {"http", "https"}
              /\ c.Host = ResolvedHost /\ c.Host # ""
              /\ Sends[i].b \in
                    {c.Protocol \o "://" \o c.Host \o "/v1/mgmt/tokens/cloudfirewalladmin",
                     c.Protocol \o "://" \o c.Host \o "/v1/mgmt/tokens/cloudrulestackadmin"}

\* The host came from the environment, the protocol too, and the token was
\* fetched from there.
C17_Witness ==
    /\ InitializeDone
    /\ pre.testData = 0
    /\ pre.Host = "" /\ pre.Protocol = ""
    /\ ret.err = Nil
    /\ Len(Sends) = 1
    /\ Sends[1].b = "http://env.example/v1/mgmt/tokens/cloudfirewalladmin"
    /\ c.FirewallJwt = "t1"

(***************************************************************************)
(* C18: what the calls after Initialize can change.                        *)
(***************************************************************************)
\* The resolved configuration of a client.
ConfigOf(cl) ==
    [Host |-> cl.Host, Region |-> cl.Region, Protocol |-> cl.Protocol,
     Timeout |-> cl.Timeout, Headers |-> cl.Headers,
     SkipVerifyCertificate |-> cl.SkipVerifyCertificate, Logging |-> cl.Logging,
     LfaArn |-> cl.LfaArn, LraArn |-> cl.LraArn, Arn |-> cl.Arn,
     apiPrefix |-> cl.apiPrefix]

\* A client with its two tokens blanked: everything but the token pair.
WithoutTokens(cl) == [cl EXCEPT !.FirewallJwt = "", !.RulestackJwt = ""]

\* C18: a RefreshJwts or Communicate call, on an initialized client or any
\* other, leaves the resolved configuration (host, region, protocol, timeout,
\* headers, skip-verify, logging, role ARNs, base URI) as it was; Communicate
\* leaves the whole client, both tokens included; RefreshJwts leaves everything
\* but the two tokens.  So over any sequence of such calls only the token pair
\* can change, and only in RefreshJwts.
C18_Frame ==
    /\ (RefreshDone \/ CommunicateDone) => ConfigOf(c) = ConfigOf(pre)
    /\ CommunicateDone => c = pre
    /\ RefreshDone => WithoutTokens(c) = WithoutTokens(pre)

\* An initialized client had its firewall token replaced by RefreshJwts.
C18_Witness ==
    /\ RefreshDone
    /\ pre.con.set /\ pre.apiPrefix = "https://api.example"
    /\ pre.FirewallJwt = "t1" /\ c.FirewallJwt = "t2"
    /\ ConfigOf(c) = ConfigOf(pre)

(***************************************************************************)
(* C19: the credentials of an assumed role.                                *)
(***************************************************************************)
IsCreds(e) == e.ev = "creds"
\* The credentials that the role assumptions of the call handed out.
Creds == SelectSeq(events, IsCreds)

\* How many requests of the call were signed with the credentials cred.
SignedWith(cred) == Cardinality({j \in 1..Len(Signs) : Signs[j].a = cred})

\* The token path of the role arn.
TokenUrlOf(arn) ==
    c.apiPrefix \o (IF arn = pre.LfaArn THEN "/v1/mgmt/tokens/cloudfirewalladmin"
                    ELSE "/v1/mgmt/tokens/cloudrulestackadmin")

\* The use that RefreshJwts makes of the credentials of its role assumptions,
\* apart from how many requests each signs: they sign only the request of the
\* role block that got them, which is sent with scope none to that role's
\* token path; they are not stored on the client; each role block, its write
\* included, is over before the next role is assumed; each token field is
\* written at most once and in its own role's block.
CredsDiscipline ==
    /\ \A k \in 1..Len(Assumes) :
          LET step == StepEvents(k)
              has(kind) == \E i \in 1..Len(step) : step[i].ev = kind
              the(kind) == CHOOSE i \in 1..Len(step) : step[i].ev = kind
          IN  /\ Assumes[k].a = (IF k = 1 /\ pre.LfaArn # "" THEN pre.LfaArn ELSE pre.LraArn)
              /\ \A i \in 1..Len(step) :
                    /\ step[i].ev = "sign" =>
                          /\ has("creds")
                          /\ step[i].a = step[the("creds")].b
                          /\ the("creds") < i
                    /\ step[i].ev = "send" =>
                          /\ step[i].b = TokenUrlOf(Assumes[k].a)
                          /\ has("sign") /\ the("sign") < i
                    /\ step[i].ev = "set" =>
                          \/ step[i].a = "Content-Type"
                          \/ \E h \in DOMAIN c.Headers :
                                CanonicalKey(h) = step[i].a /\ c.Headers[h] = step[i].b
                    /\ step[i].ev = "write" =>
                          step[i].a = (IF Assumes[k].a = pre.LfaArn
                                       THEN "FirewallJwt" ELSE "RulestackJwt")
              /\ Cardinality({i \in 1..Len(step) : step[i].ev = "creds"}) <= 1
              /\ Cardinality({i \in 1..Len(step) : step[i].ev = "write"}) <= 1
    /\ Len(Assumes) <= 2
    /\ \A i \in 1..Len(Writes) : \A j \in 1..Len(Writes) :
          Writes[i].a = Writes[j].a => i = j
    /\ \A i \in 1..Len(events) :
          events[i].ev \in {"creds", "sign", "send", "write"} =>
              Assumes # <<>> /\ AssumeAt(1) < i
    /\ \A i \in 1..Len(Creds) :
          /\ Creds[i].b \notin {c.AccessKey, c.SecretKey, c.FirewallJwt, c.RulestackJwt}
          /\ \A h \in DOMAIN c.Headers : c.Headers[h] # Creds[i].b
    /\ RefreshDone => WithoutTokens(c) = WithoutTokens(pre)

====
